---- MODULE Spec2Model ----
(***************************************************************************)
(* Model of backend/src/controllers/github.controller.js: the three HTTP   *)
(* handlers getRepositories, getRepositoryBranches and validateRepository  *)
(* over the `users` table and the GitHub REST API.                         *)
(*                                                                         *)
(* One request is in flight at a time; every `await` of a handler is a     *)
(* step, so writes of other flows to the `users` table can fall between    *)
(* two steps of a request.                                                 *)
(***************************************************************************)
EXTENDS Integers, Sequences, FiniteSets, TLC

\* ------------------------------------------------------------------ bounds
MaxUrlLen == 5

\* ------------------------------------------------------------ value spaces
NULL == "null"

\* Identity values: a caller identity may be a firebase uid or a row id.
Idents == {"a", "b"}

\* Stored OAuth tokens (non-empty strings).
Tokens == {"t1", "t2"}

\* Characters of a repositoryUrl.  "G" stands for the ten characters
\* "github.com" (none of which is a slash), "x" for any other character
\* that is not a slash.
Alphabet == {"G", "/", "x"}

Urls == UNION {[1..n -> Alphabet] : n \in 0..MaxUrlLen}

\* req.user as populated by the authentication middleware: at least one of
\* the three identity claims is set.
ReqUsers ==
  {u \in [uid : Idents \cup {NULL}, firebase_uid : Idents \cup {NULL}, id : Idents \cup {NULL}] :
     u.uid # NULL \/ u.firebase_uid # NULL \/ u.id # NULL}

Rows == [id : Idents, firebase_uid : Idents \cup {NULL}, github_access_token : Tokens \cup {NULL}]

\* Status codes the GitHub API answers a failed call with; 0 stands for
\* "no response at all" (network failure).
ExtErrorStatuses == {401, 403, 404, 500}

AuthRequired == "GitHub authentication required"
FetchReposFailed == "Failed to fetch repositories from GitHub"
ReposFailed == "Failed to fetch repositories"
FetchBranchesFailed == "Failed to fetch branches from GitHub"
BranchesFailed == "Failed to fetch repository branches"
InvalidUrl == "Invalid GitHub repository URL"
NoAccess == "Repository not found or no access"
ValidateFailed == "Failed to validate repository"

Listers == {"getRepositories", "getRepositoryBranches"}

VARIABLES
  users,              \* the `users` table: a set of rows, `id` is the primary key
  pc,                 \* position of the request in flight
  handler,            \* the handler serving it
  reqUser,            \* req.user
  repositoryUrl,      \* req.body.repositoryUrl (validateRepository)
  userByFirebaseUid,  \* data of the lookup by firebase_uid ({} is null)
  userById,           \* data of the lookup by id ({} is null / not queried)
  user,               \* the row whose token is used ({} is null)
  tokenFound,
  idQueries,          \* number of lookups by id issued in this request
  extCalls,           \* number of GitHub API calls issued in this request
  extAuth,            \* token sent in the Authorization header of the call
  extStatus,          \* status of GitHub's answer (0: none)
  extJson,            \* whether the body of GitHub's answer parses as JSON
  clearResult,        \* outcome of the clearing update
  response            \* what res.status(..).json(..) sent

vars == <<users, pc, handler, reqUser, repositoryUrl, userByFirebaseUid, userById,
          user, tokenFound, idQueries, extCalls, extAuth, extStatus, extJson, clearResult, response>>

locals == <<userByFirebaseUid, userById, user, tokenFound>>

NoResponse == [status |-> 0, error |-> ""]

Reply(s, e) == [status |-> s, error |-> e]

\* ------------------------------------------------------------ pure helpers

\* JavaScript truthiness of a token value.
Truthy(t) == t # NULL /\ t # ""

\* a || b || c over identity claims.
Or3(a, b, c) == IF Truthy(a) THEN a ELSE IF Truthy(b) THEN b ELSE c

\* The userId a handler derives from req.user.
GetUserId(h, u) ==
  IF h \in Listers THEN Or3(u.uid, u.firebase_uid, u.id)
  ELSE Or3(u.uid, u.id, NULL)

\* supabase.from('users').select().eq(col, v).single(): the row when exactly
\* one row matches, null otherwise.  A null never equals anything.
SingleBy(tbl, col, v) ==
  LET m == {r \in tbl : v # NULL /\ r[col] = v}
  IN IF Cardinality(m) = 1 THEN m ELSE {}

\* data?.github_access_token
TokenOf(data) == IF data = {} THEN NULL ELSE (CHOOSE r \in data : TRUE).github_access_token

\* Variant: the clearing update filters on the id column.
ClearedUsers_ById(tbl, v) ==
  {IF v # NULL /\ r.id = v THEN [r EXCEPT !.github_access_token = NULL] ELSE r : r \in tbl}

\* supabase.from('users').update({github_access_token: null}).eq('firebase_uid', v)
ClearedUsers(tbl, v) ==
  {IF v # NULL /\ r.firebase_uid = v THEN [r EXCEPT !.github_access_token = NULL] ELSE r : r \in tbl}

\* Variant: every failure of the call is reported as 500.
ErrorStatus_Always500(st) == 500

\* error.response?.status || 500   (st = 0: the error carries no response)
ErrorStatus(st) == IF st # 0 THEN st ELSE 500

\* ------------------------------------------------- the repositoryUrl pattern

\* Index of the last character of the longest run of non-slash characters
\* of s that starts at i (i - 1 when the run is empty): what [^\/]+ consumes.
RECURSIVE RunEnd(_, _)
RunEnd(s, i) ==
  IF i > Len(s) \/ s[i] = "/" THEN i - 1 ELSE RunEnd(s, i + 1)

\* /github\.com\/([^\/]+)\/([^\/]+)/ tried at position i of s.
MatchAt(s, i) ==
  /\ i + 1 <= Len(s)
  /\ s[i] = "G"
  /\ s[i + 1] = "/"
  /\ LET oe == RunEnd(s, i + 2)
     IN /\ oe >= i + 2
        /\ oe + 1 <= Len(s)
        /\ s[oe + 1] = "/"
        /\ RunEnd(s, oe + 2) >= oe + 2

\* Variant: the pattern without its host part, /([^\/]+)\/([^\/]+)/.
UrlMatch_NoHost(s) ==
  LET starts == {i \in 1..Len(s) :
                   LET oe == RunEnd(s, i)
                   IN /\ oe >= i
                      /\ oe + 1 <= Len(s)
                      /\ RunEnd(s, oe + 2) >= oe + 2}
  IN IF starts = {} THEN <<>>
     ELSE LET i  == CHOOSE k \in starts : \A m \in starts : k <= m
              oe == RunEnd(s, i)
              re == RunEnd(s, oe + 2)
          IN <<SubSeq(s, i, oe), SubSeq(s, oe + 2, re)>>

\* repositoryUrl.match(urlPattern): <<owner, repo>> of the leftmost match,
\* <<>> when there is none (match is null).
UrlMatch(s) ==
  LET starts == {i \in 1..Len(s) : MatchAt(s, i)}
  IN IF starts = {} THEN <<>>
     ELSE LET i  == CHOOSE k \in starts : \A m \in starts : k <= m
              oe == RunEnd(s, i + 2)
              re == RunEnd(s, oe + 2)
          IN <<SubSeq(s, i + 2, oe), SubSeq(s, oe + 2, re)>>

\* ------------------------------------------------------------------- Init

\* The table holds at most one row per id and per firebase_uid; no request
\* is in flight.
Init ==
  /\ users \in {t \in SUBSET Rows :
                  /\ \A r1, r2 \in t : r1.id = r2.id => r1 = r2
                  /\ \A r1, r2 \in t :
                       (r1.firebase_uid # NULL /\ r1.firebase_uid = r2.firebase_uid) => r1 = r2}
  /\ pc = "idle"
  /\ handler = "none"
  /\ reqUser = [uid |-> NULL, firebase_uid |-> NULL, id |-> NULL]
  /\ repositoryUrl = <<>>
  /\ userByFirebaseUid = {}
  /\ userById = {}
  /\ user = {}
  /\ tokenFound = FALSE
  /\ idQueries = 0
  /\ extCalls = 0
  /\ extAuth = NULL
  /\ extStatus = 0
  /\ extJson = TRUE
  /\ clearResult = "none"
  /\ response = NoResponse

\* A request enters handler h: everything request-local is fresh.
Enter(h, u, url, next, resp) ==
  /\ pc = "idle"
  /\ pc' = next
  /\ handler' = h
  /\ reqUser' = u
  /\ repositoryUrl' = url
  /\ userByFirebaseUid' = {}
  /\ userById' = {}
  /\ user' = {}
  /\ tokenFound' = FALSE
  /\ idQueries' = 0
  /\ extCalls' = 0
  /\ extAuth' = NULL
  /\ extStatus' = 0
  /\ extJson' = TRUE
  /\ clearResult' = "none"
  /\ response' = resp
  /\ UNCHANGED users

\* ------------------------------------------- getRepositories, ...Branches

GetRepositories ==
  /\ pc = "idle"
  /\ \E u \in ReqUsers : Enter("getRepositories", u, <<>>, "byFirebaseUid", NoResponse)

GetRepositoryBranches ==
  /\ pc = "idle"
  /\ \E u \in ReqUsers : Enter("getRepositoryBranches", u, <<>>, "byFirebaseUid", NoResponse)

\* Variant: the result of the first lookup is never used.
LookupByFirebaseUid_AlwaysFallback ==
  /\ pc = "byFirebaseUid"
  /\ handler \in Listers
  /\ userByFirebaseUid' = SingleBy(users, "firebase_uid", GetUserId(handler, reqUser))
  /\ pc' = "byId"
  /\ UNCHANGED <<users, handler, reqUser, repositoryUrl, userById, user, tokenFound, idQueries,
                 extCalls, extAuth, extStatus, extJson, clearResult, response>>

\* First try by firebase_uid.
LookupByFirebaseUid ==
  /\ pc = "byFirebaseUid"
  /\ handler \in Listers
  /\ LET data == SingleBy(users, "firebase_uid", GetUserId(handler, reqUser))
     IN /\ userByFirebaseUid' = data
        /\ IF Truthy(TokenOf(data))
           THEN /\ user' = data
                /\ tokenFound' = TRUE
                /\ pc' = "fetch"
           ELSE /\ UNCHANGED <<user, tokenFound>>
                /\ pc' = "byId"
  /\ UNCHANGED <<users, handler, reqUser, repositoryUrl, userById, idQueries,
                 extCalls, extAuth, extStatus, extJson, clearResult, response>>

\* Variant: the fallback accepts any row, with or without a token.
LookupById_AnyRow ==
  /\ pc = "byId"
  /\ handler \in Listers
  /\ idQueries' = idQueries + 1
  /\ LET data == SingleBy(users, "id", GetUserId(handler, reqUser))
     IN /\ userById' = data
        /\ IF data # {}
           THEN /\ user' = data
                /\ tokenFound' = TRUE
                /\ pc' = "fetch"
           ELSE /\ UNCHANGED <<user, tokenFound>>
                /\ pc' = "allUsers"
  /\ UNCHANGED <<users, handler, reqUser, repositoryUrl, userByFirebaseUid,
                 extCalls, extAuth, extStatus, extJson, clearResult, response>>

\* Variant: the fallback filters on firebase_uid once more.
LookupById_SameKey ==
  /\ pc = "byId"
  /\ handler \in Listers
  /\ idQueries' = idQueries + 1
  /\ LET data == SingleBy(users, "firebase_uid", GetUserId(handler, reqUser))
     IN /\ userById' = data
        /\ IF Truthy(TokenOf(data))
           THEN /\ user' = data
                /\ tokenFound' = TRUE
                /\ pc' = "fetch"
           ELSE /\ UNCHANGED <<user, tokenFound>>
                /\ pc' = "allUsers"
  /\ UNCHANGED <<users, handler, reqUser, repositoryUrl, userByFirebaseUid,
                 extCalls, extAuth, extStatus, extJson, clearResult, response>>

\* Try by id field as fallback.
LookupById ==
  /\ pc = "byId"
  /\ handler \in Listers
  /\ idQueries' = idQueries + 1
  /\ LET data == SingleBy(users, "id", GetUserId(handler, reqUser))
     IN /\ userById' = data
        /\ IF Truthy(TokenOf(data))
           THEN /\ user' = data
                /\ tokenFound' = TRUE
                /\ pc' = "fetch"
           ELSE /\ UNCHANGED <<user, tokenFound>>
                /\ pc' = "allUsers"
  /\ UNCHANGED <<users, handler, reqUser, repositoryUrl, userByFirebaseUid,
                 extCalls, extAuth, extStatus, extJson, clearResult, response>>

\* if (!tokenFound): the diagnostic listing of users, then 401.
NoTokenFound ==
  /\ pc = "allUsers"
  /\ handler \in Listers
  /\ ~tokenFound
  /\ response' = Reply(401, AuthRequired)
  /\ pc' = "done"
  /\ UNCHANGED <<users, handler, reqUser, repositoryUrl, locals, idQueries,
                 extCalls, extAuth, extStatus, extJson, clearResult>>

\* The GitHub API call of the request in flight is issued with the token of
\* `user` and answered with status st (0: no answer) and a body that parses
\* as JSON or not.
CallGitHub(st, json) ==
  /\ extCalls' = extCalls + 1
  /\ extAuth' = TokenOf(user)
  /\ extStatus' = st
  /\ extJson' = json

\* axios GET /user/repos and the catch around it.  axios rejects on every
\* status outside 2xx and when there is no response.
FetchRepositories ==
  /\ pc = "fetch"
  /\ handler = "getRepositories"
  /\ \E st \in {0, 200} \cup ExtErrorStatuses, json \in BOOLEAN :
       /\ CallGitHub(st, json)
       /\ IF st = 200
          THEN \* repositories.map throws on a body that is not an array
               /\ response' = IF json THEN Reply(200, "") ELSE Reply(500, ReposFailed)
               /\ pc' = "done"
          ELSE IF st # 0 /\ st = 401
          THEN /\ pc' = "clear"
               /\ UNCHANGED response
          ELSE /\ response' = Reply(ErrorStatus(st), FetchReposFailed)
               /\ pc' = "done"
  /\ UNCHANGED <<users, handler, reqUser, repositoryUrl, locals, idQueries, clearResult>>

\* Clear the invalid token, then 401.  The update resolves with or without
\* an error, or rejects; a rejection lands in the outer catch.
ClearToken ==
  /\ pc = "clear"
  /\ handler = "getRepositories"
  /\ \E outcome \in {"ok", "error", "throw"} :
       /\ clearResult' = outcome
       /\ users' = IF outcome = "ok"
                   THEN ClearedUsers(users, GetUserId(handler, reqUser))
                   ELSE users
       /\ response' = IF outcome = "throw"
                      THEN Reply(500, ReposFailed)
                      ELSE Reply(401, AuthRequired)
  /\ pc' = "done"
  /\ UNCHANGED <<handler, reqUser, repositoryUrl, locals, idQueries,
                 extCalls, extAuth, extStatus, extJson>>

\* fetch /repos/:owner/:repo/branches.  fetch rejects only when there is no
\* response; response.json() rejects on a body that is not JSON.
FetchBranches ==
  /\ pc = "fetch"
  /\ handler = "getRepositoryBranches"
  /\ \E st \in {0, 200} \cup ExtErrorStatuses, json \in BOOLEAN :
       /\ CallGitHub(st, json)
       /\ response' = IF st = 0 \/ ~json THEN Reply(500, BranchesFailed)
                      ELSE IF st # 200 THEN Reply(st, FetchBranchesFailed)
                      ELSE Reply(200, "")
  /\ pc' = "done"
  /\ UNCHANGED <<users, handler, reqUser, repositoryUrl, locals, idQueries, clearResult>>

\* ------------------------------------------------------ validateRepository

\* Entry up to the first await: the URL is matched before anything else.
ValidateRepository ==
  /\ pc = "idle"
  /\ \E u \in ReqUsers, url \in Urls :
       IF UrlMatch(url) = <<>>
       THEN Enter("validateRepository", u, url, "done", Reply(400, InvalidUrl))
       ELSE Enter("validateRepository", u, url, "byFirebaseUid", NoResponse)

\* Lookup by firebase_uid only; single() reports an error when no row matches.
ValidateLookup ==
  /\ pc = "byFirebaseUid"
  /\ handler = "validateRepository"
  /\ LET data      == SingleBy(users, "firebase_uid", GetUserId(handler, reqUser))
         userError == data = {}
     IN /\ userByFirebaseUid' = data
        /\ IF userError \/ data = {} \/ ~Truthy(TokenOf(data))
           THEN /\ response' = Reply(401, AuthRequired)
                /\ pc' = "done"
                /\ UNCHANGED user
           ELSE /\ user' = data
                /\ pc' = "fetch"
                /\ UNCHANGED response
  /\ UNCHANGED <<users, handler, reqUser, repositoryUrl, userById, tokenFound, idQueries,
                 extCalls, extAuth, extStatus, extJson, clearResult>>

\* fetch /repos/:owner/:repo: every answer that is not ok is a 403.
ValidateFetch ==
  /\ pc = "fetch"
  /\ handler = "validateRepository"
  /\ \E st \in {0, 200} \cup ExtErrorStatuses, json \in BOOLEAN :
       /\ CallGitHub(st, json)
       /\ response' = IF st = 0 THEN Reply(500, ValidateFailed)
                      ELSE IF st # 200 THEN Reply(403, NoAccess)
                      ELSE IF json THEN Reply(200, "")
                      ELSE Reply(500, ValidateFailed)
  /\ pc' = "done"
  /\ UNCHANGED <<users, handler, reqUser, repositoryUrl, locals, idQueries, clearResult>>

\* ------------------------------------------------------------ environment

\* The response has been sent; the request is over.
Finish ==
  /\ pc = "done"
  /\ pc' = "idle"
  /\ handler' = "none"
  /\ reqUser' = [uid |-> NULL, firebase_uid |-> NULL, id |-> NULL]
  /\ repositoryUrl' = <<>>
  /\ userByFirebaseUid' = {}
  /\ userById' = {}
  /\ user' = {}
  /\ tokenFound' = FALSE
  /\ idQueries' = 0
  /\ extCalls' = 0
  /\ extAuth' = NULL
  /\ extStatus' = 0
  /\ extJson' = TRUE
  /\ clearResult' = "none"
  /\ response' = NoResponse
  /\ UNCHANGED users

\* The auth-linking flow stores a fresh token in a user row.
LinkToken ==
  /\ \E r \in users, t \in Tokens :
       /\ t # r.github_access_token
       /\ users' = (users \ {r}) \cup {[r EXCEPT !.github_access_token = t]}
  /\ UNCHANGED <<pc, handler, reqUser, repositoryUrl, locals, idQueries,
                 extCalls, extAuth, extStatus, extJson, clearResult, response>>

Next ==
  \/ GetRepositories
  \/ GetRepositoryBranches
  \/ ValidateRepository
  \/ LookupByFirebaseUid
  \/ LookupById
  \/ NoTokenFound
  \/ FetchRepositories
  \/ ClearToken
  \/ FetchBranches
  \/ ValidateLookup
  \/ ValidateFetch
  \/ Finish
  \/ LinkToken

Spec == Init /\ [][Next]_vars

TypeOK ==
  /\ users \subseteq Rows
  /\ pc \in {"idle", "byFirebaseUid", "byId", "allUsers", "fetch", "clear", "done"}
  /\ handler \in Listers \cup {"validateRepository", "none"}
  /\ response.status \in {0, 200, 400, 401, 403, 404, 500}

\* ================================================================= claims

\* The userId of the request in flight.
CallerId == GetUserId(handler, reqUser)

\* Some row of tbl has column col equal to v and holds a token.
HasTokenUnder(tbl, col, v) ==
  \E r \in tbl : r[col] = v /\ r.github_access_token # NULL

\* A handler took a step (the auth-linking flow leaves pc alone).
HandlerStep == pc' # pc

\* s contains github.com/<owner>/<repo> somewhere: owner is s[i+2..j] and
\* repo is s[j+2..k], both non-empty and free of slashes.
HasRepoShape(s) ==
  \E i, j, k \in 1..Len(s) :
    /\ i + 2 <= j
    /\ j + 2 <= k
    /\ s[i] = "G"
    /\ s[i + 1] = "/"
    /\ \A m \in (i + 2)..j : s[m] # "/"
    /\ s[j + 1] = "/"
    /\ \A m \in (j + 2)..k : s[m] # "/"

\* C1: in getRepositories, once GitHub has answered 401 and the clearing
\* update has gone through, the response is 401 'GitHub authentication
\* required' and the row whose token was sent to GitHub holds no token any
\* more, whichever lookup that row came from.
C1_ClearedAfter401 ==
  [][(pc = "clear" /\ HandlerStep /\ clearResult' = "ok")
       => /\ response' = Reply(401, AuthRequired)
          /\ \A u \in user : \A r \in users' :
               r.id = u.id => r.github_access_token = NULL]_vars

\* C2: in the two listers, when the lookup by firebase_uid meets a row of
\* the caller with a token, that token is the one sent to GitHub and no
\* lookup by id is issued in the request.
C2_IdentityKeyNoFallback ==
  [][/\ (/\ handler \in Listers
         /\ pc = "byFirebaseUid"
         /\ HandlerStep
         /\ HasTokenUnder(users, "firebase_uid", CallerId))
          => /\ pc' = "fetch"
             /\ user' \subseteq users
             /\ \A r \in user' : r.firebase_uid = CallerId
             /\ Truthy(TokenOf(user'))
             /\ user' = userByFirebaseUid'
     /\ (/\ handler \in Listers
         /\ pc = "fetch"
         /\ HandlerStep
         /\ TokenOf(userByFirebaseUid) # NULL)
          => /\ extCalls' = 1
             /\ extAuth' = TokenOf(userByFirebaseUid)
     /\ (handler' \in Listers /\ TokenOf(userByFirebaseUid') # NULL)
          => idQueries' = 0]_vars

C2_Witness ==
  /\ handler \in Listers
  /\ pc = "done"
  /\ TokenOf(userByFirebaseUid) # NULL
  /\ extCalls = 1
  /\ extAuth = TokenOf(userByFirebaseUid)
  /\ idQueries = 0

\* C3: in the two listers, when neither the lookup by firebase_uid nor the
\* lookup by id yielded a row with a token, no GitHub call is made and the
\* response is 401 'GitHub authentication required'.
C3_NoTokenNoCall ==
  (/\ handler \in Listers
   /\ pc \in {"allUsers", "fetch", "clear", "done"}
   /\ TokenOf(userByFirebaseUid) = NULL
   /\ TokenOf(userById) = NULL)
    => /\ pc \in {"allUsers", "done"}
       /\ extCalls = 0
       /\ pc = "done" => response = Reply(401, AuthRequired)

C3_Witness ==
  /\ handler \in Listers
  /\ pc = "done"
  /\ TokenOf(userByFirebaseUid) = NULL
  /\ TokenOf(userById) = NULL
  /\ idQueries = 1
  /\ response = Reply(401, AuthRequired)
  /\ extCalls = 0

\* C4: in getRepositories, when GitHub has answered 401 and the clearing
\* update fails (resolves with an error, or rejects), the response is still
\* 401 'GitHub authentication required'.
C4_ClearFailureKeeps401 ==
  (/\ handler = "getRepositories"
   /\ pc = "done"
   /\ extStatus = 401
   /\ clearResult \in {"error", "throw"})
    => response = Reply(401, AuthRequired)

\* C5: in validateRepository, a repositoryUrl that contains
\* github.com/<owner>/<repo> nowhere is answered 400 'Invalid GitHub
\* repository URL' with no GitHub call, with or without a stored token.
C5_InvalidUrl400 ==
  (handler = "validateRepository" /\ ~HasRepoShape(repositoryUrl))
    => /\ pc = "done"
       /\ response = Reply(400, InvalidUrl)
       /\ extCalls = 0

C5_Witness ==
  /\ handler = "validateRepository"
  /\ Len(repositoryUrl) = MaxUrlLen
  /\ repositoryUrl[1] = "G"
  /\ ~HasRepoShape(repositoryUrl)
  /\ ~HasTokenUnder(users, "firebase_uid", CallerId)
  /\ response = Reply(400, InvalidUrl)

\* C6: for a caller with no token under the firebase_uid key and a token
\* under the id key, the listers fall back to the id key, take that token
\* and call GitHub with it; validateRepository answers 401 'GitHub
\* authentication required' and calls nothing.
C6_FallbackOnlyInListers ==
  [][/\ (/\ handler \in Listers
         /\ pc = "byFirebaseUid"
         /\ HandlerStep
         /\ ~HasTokenUnder(users, "firebase_uid", CallerId))
          => pc' = "byId"
     /\ (/\ handler \in Listers
         /\ pc = "byId"
         /\ HandlerStep
         /\ HasTokenUnder(users, "id", CallerId))
          => /\ pc' = "fetch"
             /\ tokenFound'
             /\ user' \subseteq users
             /\ \A r \in user' : r.id = CallerId
             /\ Truthy(TokenOf(user'))
     /\ (/\ handler \in Listers
         /\ pc = "fetch"
         /\ HandlerStep)
          => /\ extCalls' = 1
             /\ extAuth' = TokenOf(user)
     /\ (/\ handler = "validateRepository"
         /\ pc = "byFirebaseUid"
         /\ HandlerStep
         /\ ~HasTokenUnder(users, "firebase_uid", CallerId))
          => /\ pc' = "done"
             /\ response' = Reply(401, AuthRequired)
             /\ extCalls' = 0]_vars

C6_Witness ==
  /\ handler \in Listers
  /\ pc = "done"
  /\ TokenOf(userByFirebaseUid) = NULL
  /\ userById # {}
  /\ tokenFound
  /\ extCalls = 1
  /\ extAuth = TokenOf(userById)
  /\ extAuth # NULL

\* C7: no step of getRepositoryBranches or validateRepository changes the
\* users table; a step of getRepositories changes it only after a 401 of
\* GitHub, and then only by nulling github_access_token in rows whose
\* firebase_uid is the caller's identity.
C7_OnlyInvalidationWrites ==
  [][HandlerStep
       => \/ users' = users
          \/ /\ handler = "getRepositories"
             /\ extStatus = 401
             /\ \A o \in users :
                  \E r \in users' : r.id = o.id /\ r.firebase_uid = o.firebase_uid
             /\ \A r \in users' :
                  \/ r \in users
                  \/ /\ r.github_access_token = NULL
                     /\ r.firebase_uid = CallerId
                     /\ \E o \in users : o.id = r.id /\ o.firebase_uid = r.firebase_uid]_vars

C7_Witness ==
  /\ handler = "getRepositories"
  /\ pc = "done"
  /\ clearResult = "ok"
  /\ TokenOf(userByFirebaseUid) # NULL
  /\ \E r \in users : r.firebase_uid = CallerId /\ r.github_access_token = NULL
  /\ \E r \in users : r.firebase_uid # CallerId /\ r.github_access_token # NULL

\* C8: in getRepositoryBranches, whenever GitHub answers with a status that
\* is not a success, the response carries exactly that status, whatever the
\* body of the answer.
C8_BranchesUpstreamStatus ==
  (/\ handler = "getRepositoryBranches"
   /\ pc = "done"
   /\ extCalls = 1
   /\ extStatus \in ExtErrorStatuses)
    => response.status = extStatus

\* C9: in getRepositories, a failure of the GitHub call other than a 401 is
\* answered with GitHub's status when there is one and with 500 otherwise,
\* and the users table is left as it is, no clearing update being issued.
C9_OtherFailuresPropagate ==
  [][(/\ handler = "getRepositories"
      /\ pc = "fetch"
      /\ HandlerStep
      /\ extStatus' \notin {200, 401})
       => /\ users' = users
          /\ pc' = "done"
          /\ clearResult' = "none"
          /\ response'.status = IF extStatus' \in ExtErrorStatuses THEN extStatus' ELSE 500]_vars

C9_Witness ==
  /\ handler = "getRepositories"
  /\ pc = "done"
  /\ extStatus = 403
  /\ response = Reply(403, FetchReposFailed)
  /\ clearResult = "none"
  /\ HasTokenUnder(users, "firebase_uid", CallerId)

\* C10: the clearing update of getRepositories nulls no token other than
\* the one GitHub rejected: a token stored by the auth-linking flow after
\* the handler read the credential survives the request.
C10_OnlyRejectedTokenNulled ==
  [][(pc = "clear" /\ HandlerStep)
       => \A o \in users :
            (/\ o.github_access_token # NULL
             /\ [o EXCEPT !.github_access_token = NULL] \in users')
              => o.github_access_token = extAuth]_vars

====
